---- MODULE Spec2Model ----
(***************************************************************************)
(* Model of Baidu_hot_extened.py: one run of main() -- the retried GET,    *)
(* raise_for_status, parse_items over the fetched DOM, the title filter    *)
(* and the three writers save_excel, save_csv, save_json.                  *)
(*                                                                         *)
(* Texts are sequences of one-character strings, so that strip(), int()    *)
(* and str() are computed and not assumed.  A card is a container div with *)
(* its descendant elements in document order; an element carries the one   *)
(* class (or tag) the selectors of parse_items look at, its text nodes and *)
(* an optional href.                                                       *)
(***************************************************************************)
EXTENDS Integers, Sequences, FiniteSets, TLC

VARIABLES pc, total, attempts, all503, resp, err, page, extracted, data,
          files, nwritten, failedAt

vars == <<pc, total, attempts, all503, resp, err, page, extracted, data,
          files, nwritten, failedAt>>

\* Largest number of top-level divs in a fetched page.
MaxCards == 2

-----------------------------------------------------------------------------
(* Text primitives                                                          *)

Whitespace == {" ", "\n"}

\* str.strip(): drop leading and trailing whitespace.
RECURSIVE LStrip(_)
LStrip(s) ==
    IF s = <<>> THEN <<>>
    ELSE IF Head(s) \in Whitespace THEN LStrip(Tail(s)) ELSE s

RECURSIVE RStrip(_)
RStrip(s) ==
    IF s = <<>> THEN <<>>
    ELSE IF s[Len(s)] \in Whitespace THEN RStrip(SubSeq(s, 1, Len(s) - 1)) ELSE s

Strip(s) == RStrip(LStrip(s))

DigitChars == <<"0", "1", "2", "3", "4", "5", "6", "7", "8", "9">>

IsDigit(c) == \E d \in 1..10 : DigitChars[d] = c

DigitVal(c) == (CHOOSE d \in 1..10 : DigitChars[d] = c) - 1

RECURSIVE DigitsValue(_, _)
DigitsValue(s, acc) ==
    IF s = <<>> THEN acc
    ELSE DigitsValue(Tail(s), acc * 10 + DigitVal(Head(s)))

AllDigits(s) == s # <<>> /\ \A i \in 1..Len(s) : IsDigit(s[i])

\* int(text): surrounding whitespace is ignored, one optional sign, then
\* decimal digits; anything else raises ValueError (ok = FALSE).
PyInt(t) ==
    LET s == Strip(t)
        signed == s # <<>> /\ Head(s) \in {"-", "+"}
        body == IF signed THEN Tail(s) ELSE s
    IN  IF AllDigits(body)
        THEN [ok |-> TRUE,
              val |-> IF signed /\ Head(s) = "-"
                      THEN 0 - DigitsValue(body, 0)
                      ELSE DigitsValue(body, 0)]
        ELSE [ok |-> FALSE, val |-> 0]

RECURSIVE NatStr(_)
NatStr(n) ==
    IF n < 10 THEN <<DigitChars[n + 1]>>
    ELSE NatStr(n \div 10) \o <<DigitChars[(n % 10) + 1]>>

\* str(n) of an int.
PyStr(n) == IF n < 0 THEN <<"-">> \o NatStr(0 - n) ELSE NatStr(n)

\* element.get_text(sep, strip=True): every text node stripped, the empty
\* ones dropped, the rest joined with sep.
RECURSIVE get_text(_, _)
get_text(strs, sep) ==
    IF strs = <<>> THEN <<>>
    ELSE LET h == Strip(Head(strs))
             r == get_text(Tail(strs), sep)
         IN  IF h = <<>> THEN r
             ELSE IF r = <<>> THEN h
             ELSE h \o sep \o r

-----------------------------------------------------------------------------
(* Cells and records.  A value is an int (rank) or a text; a record is the *)
(* dict of parse_items, kept as the sequence of its items in insertion     *)
(* order.                                                                  *)

IntCell(n) == [kind |-> "int", int |-> n, str |-> <<>>]
StrCell(s) == [kind |-> "str", int |-> 0, str |-> s]

Item(k, v) == [k |-> k, v |-> v]

Keys(d) == [i \in 1..Len(d) |-> d[i].k]

HasKey(d, k) == \E i \in 1..Len(d) : d[i].k = k

\* dict.get(k, default)
Get(d, k, default) ==
    IF HasKey(d, k) THEN d[CHOOSE i \in 1..Len(d) : d[i].k = k].v ELSE default

\* Python truthiness of a cell value.
Truthy(v) == IF v.kind = "int" THEN v.int # 0 ELSE v.str # <<>>

-----------------------------------------------------------------------------
(* The DOM.  A page is the sequence of its top-level divs in document      *)
(* order; each div carries its class and its descendant elements in        *)
(* document order.                                                         *)

Node(sel, strs) == [sel |-> sel, strs |-> strs, hasHref |-> FALSE, href |-> <<>>]

Anchor(href) == [sel |-> "a", strs |-> <<>>, hasHref |-> TRUE, href |-> href]

Div(cls, nodes) == [cls |-> cls, nodes |-> nodes]

NoNode == [found |-> FALSE, node |-> Node("", <<>>)]

BAIDU_TOP_URL == <<"u", "r", "l">>

\* soup.select("div.<cls>"): every matching div, in document order.
select(soup, cls) == SelectSeq(soup, LAMBDA d : d.cls = cls)

\* card.select_one("<s1>, <s2>"): a selector group matches an element that
\* matches any of its selectors; select_one returns the first such element
\* in document order, or None.
select_one(card, sels) ==
    LET hits == {i \in 1..Len(card.nodes) : card.nodes[i].sel \in sels}
    IN  IF hits = {} THEN NoNode
        ELSE [found |-> TRUE,
              node |-> card.nodes[CHOOSE i \in hits : \A j \in hits : i <= j]]

\* card.select_one("a[href]")
select_one_href(card) ==
    LET hits == {i \in 1..Len(card.nodes) :
                    card.nodes[i].sel = "a" /\ card.nodes[i].hasHref}
    IN  IF hits = {} THEN NoNode
        ELSE [found |-> TRUE,
              node |-> card.nodes[CHOOSE i \in hits : \A j \in hits : i <= j]]

CARD_SELECTORS == <<"category-wrap_iQLoo", "category-wrap">>

TITLE_SEL == {"c-single-text-ellipsis"}
RANK_SEL == {"index_1Ew5p", "index"}
HEAT_SEL == {"hot-index_1Bl1a", "hot-index"}
DESC_SEL == {"hot-desc_1m_jR", "hot-desc"}
TAG_SEL == {"tag_1z8Gk", "tag"}
TREND_SEL == {"trend-icon", "trend"}

\* discover_cards with the two selectors merged into one selector group.
discover_cards_union(soup) ==
    SelectSeq(soup, LAMBDA d : d.cls \in {CARD_SELECTORS[1], CARD_SELECTORS[2]})

\* cards = soup.select(hashed) or soup.select(generic) or []
discover_cards(soup) ==
    LET a == select(soup, CARD_SELECTORS[1])
        b == select(soup, CARD_SELECTORS[2])
    IN  IF a # <<>> THEN a ELSE IF b # <<>> THEN b ELSE <<>>

\* x.get_text(sep, strip=True) if x else ""
text_or_empty(el, sep) == IF el.found THEN get_text(el.node.strs, sep) ELSE <<>>

\* rank_of with the fallback counted from 0 (enumerate without start=1).
rank_of_zero_based(card, idx) ==
    LET rank_el == select_one(card, RANK_SEL)
        parsed == PyInt(get_text(rank_el.node.strs, <<>>))
    IN  IF ~rank_el.found THEN idx - 1
        ELSE IF parsed.ok THEN parsed.val
        ELSE idx - 1

\* try: rank = int(rank_el.get_text(strip=True)) if rank_el else idx
\* except Exception: rank = idx
rank_of(card, idx) ==
    LET rank_el == select_one(card, RANK_SEL)
        parsed == PyInt(get_text(rank_el.node.strs, <<>>))
    IN  IF ~rank_el.found THEN idx
        ELSE IF parsed.ok THEN parsed.val
        ELSE idx

link_of(card) ==
    LET link_el == select_one_href(card)
    IN  IF link_el.found /\ link_el.node.hasHref THEN Strip(link_el.node.href)
        ELSE <<>>

\* The body of the loop of parse_items: the record appended for one card.
parse_card(card, idx, ts) ==
    << Item("rank",  IntCell(rank_of(card, idx))),
       Item("title", StrCell(text_or_empty(select_one(card, TITLE_SEL), <<>>))),
       Item("heat",  StrCell(text_or_empty(select_one(card, HEAT_SEL), <<>>))),
       Item("tag",   StrCell(text_or_empty(select_one(card, TAG_SEL), <<>>))),
       Item("brief", StrCell(text_or_empty(select_one(card, DESC_SEL), <<" ">>))),
       Item("link",  StrCell(link_of(card))),
       Item("trend", StrCell(text_or_empty(select_one(card, TREND_SEL), <<>>))),
       Item("fetched_at", StrCell(ts)),
       Item("source", StrCell(BAIDU_TOP_URL)) >>

\* for idx, card in enumerate(cards, start=1): records.append({...})
parse_items(soup, ts) ==
    LET cards == discover_cards(soup)
    IN  [idx \in 1..Len(cards) |-> parse_card(cards[idx], idx, ts)]

\* filter_titled testing the presence of the key instead of its value.
filter_has_title_key(rows) == SelectSeq(rows, LAMBDA d : HasKey(d, "title"))

\* data = [d for d in data if d.get("title")]
filter_titled(rows) ==
    SelectSeq(rows, LAMBDA d : Truthy(Get(d, "title", StrCell(<<>>))))

-----------------------------------------------------------------------------
(* The three writers.  A file is [st, header, rows]: st is "absent",       *)
(* "stale" (left by an earlier run), "partial" (a write that failed midway)*)
(* or "written".                                                           *)

Absent == [st |-> "absent",  header |-> <<>>, rows |-> <<>>]
Stale == [st |-> "stale",   header |-> <<>>, rows |-> <<>>]
Partial == [st |-> "partial", header |-> <<>>, rows |-> <<>>]

EXCEL_HEADERS ==
    <<"rank", "title", "heat", "tag", "brief", "link", "trend", "fetched_at", "source">>

\* save_excel with the rank and title columns filled the other way round.
save_excel_swapped(rows, old) ==
    [st |-> "written",
     header |-> EXCEL_HEADERS,
     rows |-> [i \in 1..Len(rows) |->
                 [j \in 1..Len(EXCEL_HEADERS) |->
                     Get(rows[i],
                         EXCEL_HEADERS[IF j = 1 THEN 2 ELSE IF j = 2 THEN 1 ELSE j],
                         StrCell(<<>>))]]]

\* ws.append(headers); for r in rows: ws.append([r.get(h, "") for h in headers])
save_excel(rows, old) ==
    [st |-> "written",
     header |-> EXCEL_HEADERS,
     rows |-> [i \in 1..Len(rows) |->
                 [j \in 1..Len(EXCEL_HEADERS) |->
                     Get(rows[i], EXCEL_HEADERS[j], StrCell(<<>>))]]]

\* csv writes str(value) for every field.
csv_field(v) == IF v.kind = "int" THEN StrCell(PyStr(v.int)) ELSE v

\* save_csv without the early return: the file is opened and left empty.
save_csv_always_opens(rows, old) ==
    LET headers == IF rows = <<>> THEN <<>> ELSE Keys(rows[1])
    IN  [st |-> "written",
         header |-> headers,
         rows |-> [i \in 1..Len(rows) |->
                     [j \in 1..Len(headers) |->
                         csv_field(Get(rows[i], headers[j], StrCell(<<>>)))]]]

\* if not rows: return; headers = list(rows[0].keys()); DictWriter header + rows
save_csv(rows, old) ==
    IF rows = <<>> THEN old
    ELSE LET headers == Keys(rows[1])
         IN  [st |-> "written",
              header |-> headers,
              rows |-> [i \in 1..Len(rows) |->
                          [j \in 1..Len(headers) |->
                              csv_field(Get(rows[i], headers[j], StrCell(<<>>)))]]]

\* json.dump(rows): an array of objects, each with its own keys in order.
save_json(rows, old) == [st |-> "written", header |-> <<>>, rows |-> rows]

\* The writers called in another order.
WRITERS_csv_first == <<"csv", "excel", "json">>

\* main: save_excel, then save_csv, then save_json.
WRITERS == <<"excel", "csv", "json">>

\* A writer that does no I/O cannot fail: save_csv returns at once on [].
can_fail(w, rows) == w # "csv" \/ rows # <<>>

-----------------------------------------------------------------------------
(* The retrying transport (urllib3 Retry as configured by build_session)   *)

\* One retry fewer than configured.
RetryTotal_one_less == 5 - 1

\* Retry(total=5): the number of retries allowed after the first request.
RetryTotal == 5

STATUS_FORCELIST == {429, 500, 502, 503, 504}

\* Statuses the transport may answer with (redirects are followed below
\* this level; a 3xx here is one that has no Location to follow).
Statuses == {101, 200, 204, 304, 404, 429, 500, 502, 503, 504}

\* Responses that carry no body.
NoBody(status) == status < 200 \/ status \in {204, 304}

\* Retry.is_exhausted(): the counter went below zero.
is_exhausted(t) == t < 0

\* Retry.is_retry("GET", status): GET is an allowed method.
is_retry(status) == status \in STATUS_FORCELIST

\* Response.raise_for_status(): HTTPError for 4xx and 5xx.
raises_for_status(status) == 400 <= status /\ status < 600

-----------------------------------------------------------------------------
(* Inputs                                                                  *)

T(c) == <<c>>

TitleNone == <<>>
TitleBlank == <<Node("c-single-text-ellipsis", <<T(" "), <<"\n", " ">>>>)>>
TitleA == <<Node("c-single-text-ellipsis", <<<<" ", "A">>, <<"\n">>>>)>>

PrimaryFields ==
    << Node("index_1Ew5p", <<<<" ", "3", " ">>>>),
       Node("hot-index_1Bl1a", <<<<"9", "k">>>>),
       Node("hot-desc_1m_jR", <<<<"d", " ">>, <<" ">>, <<"\n", "e">>>>),
       Node("tag_1z8Gk", <<T("h")>>) >>

GenericFields ==
    << Node("index", <<T("1"), T("2")>>),
       Node("hot-index", <<<<"1", "k">>>>),
       Node("hot-desc", <<T("g")>>),
       Node("tag", <<T("n")>>) >>

LinkTrend == << Anchor(<<" ", "/", "i", " ">>), Node("trend", <<T("u")>>) >>

RankOnly(t) == << Node("index_1Ew5p", <<t>>) >>

FieldParts ==
    [ none      |-> <<>>,
      primary   |-> PrimaryFields \o LinkTrend,
      generic   |-> GenericFields,
      genFirst  |-> GenericFields \o PrimaryFields,
      primFirst |-> PrimaryFields \o GenericFields,
      rankX     |-> RankOnly(<<"x">>),
      rankZero  |-> RankOnly(<<"0">>),
      rankNeg   |-> RankOnly(<<"-", "2">>) ]

CardMenu ==
    {Div("category-wrap_iQLoo", TitleA \o FieldParts[f]) : f \in DOMAIN FieldParts}
    \cup {Div("category-wrap_iQLoo", TitleBlank \o FieldParts["rankX"]),
          Div("category-wrap_iQLoo", TitleNone),
          Div("category-wrap", TitleA \o FieldParts["primary"]),
          Div("category-wrap", TitleBlank),
          Div("other", TitleA)}

Pages == UNION {[1..n -> CardMenu] : n \in 0..MaxCards}

Timestamps == {<<"t">>}

FileNames == {"excel", "csv", "json"}

-----------------------------------------------------------------------------
(* The run                                                                 *)

Init ==
    /\ pc = "start"
    /\ total = 0
    /\ attempts = 0
    /\ all503 = TRUE
    /\ resp = 0
    /\ err = ""
    /\ page = <<>>
    /\ extracted = <<>>
    /\ data = <<>>
    /\ files \in {[f \in FileNames |-> Absent], [f \in FileNames |-> Stale]}
    /\ nwritten = 0
    /\ failedAt = ""

\* session = build_session()
BuildSession ==
    /\ pc = "start"
    /\ pc' = "requesting"
    /\ total' = RetryTotal
    /\ UNCHANGED <<attempts, all503, resp, err, page, extracted, data, files,
                   nwritten, failedAt>>

\* One request of session.get answered with a status.
SendRequest ==
    /\ pc = "requesting"
    /\ \E status \in Statuses :
         /\ attempts' = attempts + 1
         /\ all503' = (all503 /\ status = 503)
         /\ IF is_retry(status)
            THEN /\ total' = total - 1
                 /\ IF is_exhausted(total - 1)
                    THEN pc' = "responded" /\ resp' = status
                    ELSE pc' = "requesting" /\ resp' = resp
            ELSE /\ total' = total
                 /\ pc' = "responded"
                 /\ resp' = status
    /\ UNCHANGED <<err, page, extracted, data, files, nwritten, failedAt>>

\* One request of session.get that ends in a connection error or a timeout.
RequestFails ==
    /\ pc = "requesting"
    /\ attempts' = attempts + 1
    /\ all503' = FALSE
    /\ total' = total - 1
    /\ IF is_exhausted(total - 1)
       THEN pc' = "failed" /\ err' = "ConnectionError"
       ELSE pc' = "requesting" /\ err' = err
    /\ UNCHANGED <<resp, page, extracted, data, files, nwritten, failedAt>>

\* resp.raise_for_status(); html = resp.text; soup = BeautifulSoup(html)
RaiseForStatus ==
    /\ pc = "responded"
    /\ IF raises_for_status(resp)
       THEN pc' = "failed" /\ err' = "HTTPError" /\ page' = page
       ELSE /\ pc' = "fetched"
            /\ err' = err
            /\ page' \in (IF NoBody(resp) THEN {<<>>} ELSE Pages)
    /\ UNCHANGED <<total, attempts, all503, resp, extracted, data, files,
                   nwritten, failedAt>>

\* data = parse_items(soup)
ParseItems ==
    /\ pc = "fetched"
    /\ \E ts \in Timestamps :
         /\ extracted' = parse_items(page, ts)
         /\ data' = parse_items(page, ts)
    /\ pc' = "parsed"
    /\ UNCHANGED <<total, attempts, all503, resp, err, page, files, nwritten,
                   failedAt>>

\* data = [d for d in data if d.get("title")]
FilterTitles ==
    /\ pc = "parsed"
    /\ data' = filter_titled(data)
    /\ pc' = "saving"
    /\ UNCHANGED <<total, attempts, all503, resp, err, page, extracted, files,
                   nwritten, failedAt>>

\* main reached the call of writer w.
turn(w) == pc = "saving" /\ nwritten < Len(WRITERS) /\ WRITERS[nwritten + 1] = w

\* save_excel(data, OUTPUT_EXCEL)
SaveExcel ==
    /\ turn("excel")
    /\ files' = [files EXCEPT !["excel"] = save_excel(data, files["excel"])]
    /\ nwritten' = nwritten + 1
    /\ pc' = IF nwritten + 1 = Len(WRITERS) THEN "done" ELSE "saving"
    /\ UNCHANGED <<total, attempts, all503, resp, err, page, extracted, data,
                   failedAt>>

\* save_csv(data, OUTPUT_CSV)
SaveCsv ==
    /\ turn("csv")
    /\ files' = [files EXCEPT !["csv"] = save_csv(data, files["csv"])]
    /\ nwritten' = nwritten + 1
    /\ pc' = IF nwritten + 1 = Len(WRITERS) THEN "done" ELSE "saving"
    /\ UNCHANGED <<total, attempts, all503, resp, err, page, extracted, data,
                   failedAt>>

\* save_json(data, OUTPUT_JSON); the prints follow.
SaveJson ==
    /\ turn("json")
    /\ files' = [files EXCEPT !["json"] = save_json(data, files["json"])]
    /\ nwritten' = nwritten + 1
    /\ pc' = IF nwritten + 1 = Len(WRITERS) THEN "done" ELSE "saving"
    /\ UNCHANGED <<total, attempts, all503, resp, err, page, extracted, data,
                   failedAt>>

\* The writer whose turn it is raises: main stops there.  The file it was
\* writing is left as it was or half written.
WriteFails ==
    /\ pc = "saving"
    /\ nwritten < Len(WRITERS)
    /\ LET w == WRITERS[nwritten + 1]
       IN  /\ can_fail(w, data)
           /\ \E left \in {files[w], Partial} :
                files' = [files EXCEPT ![w] = left]
           /\ failedAt' = w
    /\ pc' = "failed"
    /\ err' = "WriteFailure"
    /\ UNCHANGED <<total, attempts, all503, resp, page, extracted, data, nwritten>>

Next ==
    \/ BuildSession
    \/ SendRequest
    \/ RequestFails
    \/ RaiseForStatus
    \/ ParseItems
    \/ FilterTitles
    \/ SaveExcel
    \/ SaveCsv
    \/ SaveJson
    \/ WriteFails

Spec == Init /\ [][Next]_vars

-----------------------------------------------------------------------------
(* Vocabulary of the properties                                            *)

\* The file is as it was before the run.
Untouched(f) == files[f].st \in {"absent", "stale"}

NoOutput == \A f \in FileNames : Untouched(f)

\* parse_items has just returned: extracted holds its result (and keeps it).
Parsed == pc = "parsed"

\* The filter has run: data is what the writers are handed.
Filtered == pc \in {"saving", "done"} \/ (pc = "failed" /\ err = "WriteFailure")

RankOf(r) == r[1].v.int
TitleOf(r) == r[2].v.str

HASHED == "category-wrap_iQLoo"
GENERIC == "category-wrap"

\* The class of the divs that are the cards of the page: the hashed one when
\* any div has it, else the generic one.
CardClass(soup) ==
    IF \E p \in 1..Len(soup) : soup[p].cls = HASHED THEN HASHED ELSE GENERIC

IsCardAt(soup, p) == soup[p].cls = CardClass(soup)

\* 1-based position of the div at p among the cards.
CardIndex(soup, p) == Cardinality({q \in 1..p : IsCardAt(soup, q)})

CardPositions(soup) == {p \in 1..Len(soup) : IsCardAt(soup, p)}

TsOf(rows) == rows[1][8].v.str

-----------------------------------------------------------------------------
(* C1  Retry exhaustion                                                    *)

-----------------------------------------------------------------------------
(* C2  Fetch contract                                                      *)

\* C2: the run gets past the fetch only with a final status 2xx; with any
\* other final status, or an I/O failure, it fails and writes no file.
C2_OnlySuccessProceeds ==
    /\ (pc \in {"fetched", "parsed", "saving", "done"} \/ ~NoOutput) =>
           (200 <= resp /\ resp < 300)
    /\ (pc = "failed" /\ err \in {"HTTPError", "ConnectionError"}) => NoOutput

-----------------------------------------------------------------------------
(* C3  Title filter                                                        *)

\* out is in with exactly the empty-title records removed, order kept.
RECURSIVE KeepsTitled(_, _)
KeepsTitled(out, in) ==
    IF in = <<>> THEN out = <<>>
    ELSE IF TitleOf(Head(in)) # <<>>
         THEN out # <<>> /\ Head(out) = Head(in) /\ KeepsTitled(Tail(out), Tail(in))
         ELSE KeepsTitled(out, Tail(in))

\* C3: the sequence handed to the writers is the extracted sequence with
\* exactly the empty-title records removed, in page order; a record is in
\* it iff its title is non-empty.
C3_TitleFilter ==
    Filtered =>
        /\ KeepsTitled(data, extracted)
        /\ \A i \in 1..Len(extracted) :
             (\E j \in 1..Len(data) : data[j] = extracted[i])
                 <=> TitleOf(extracted[i]) # <<>>
        /\ files["json"].st = "written" => files["json"].rows = data
        /\ files["excel"].st = "written" => Len(files["excel"].rows) = Len(data)
        /\ files["csv"].st = "written" => Len(files["csv"].rows) = Len(data)

C3_Witness ==
    /\ pc = "done"
    /\ Len(extracted) = 2
    /\ TitleOf(extracted[1]) = <<>>
    /\ data = <<extracted[2]>>
    /\ files["json"].rows = data

-----------------------------------------------------------------------------
(* C4  Rank fallback                                                       *)

\* The rank element of the card is missing or its text is no integer.
RankFallsBack(card) ==
    LET el == select_one(card, RANK_SEL)
    IN  ~el.found \/ ~PyInt(get_text(el.node.strs, <<>>)).ok

\* The same card with a rank element that parses put first.
WithParsingRank(card) ==
    Div(card.cls, <<Node("index_1Ew5p", <<<<"9">>>>)>> \o card.nodes)

\* C4: a card whose rank is missing or unparsable gets its 1-based position
\* among the discovered cards, and every other card's record and every
\* other field of its own record are what they are when its rank parses.
C4_RankFallback ==
    Parsed =>
        \A p \in CardPositions(page) :
            RankFallsBack(page[p]) =>
                LET i == CardIndex(page, p)
                    other == parse_items([page EXCEPT ![p] = WithParsingRank(page[p])],
                                         TsOf(extracted))
                IN  /\ RankOf(extracted[i]) = i
                    /\ Len(other) = Len(extracted)
                    /\ RankOf(other[i]) = 9
                    /\ \A j \in 1..Len(extracted) : j # i => other[j] = extracted[j]
                    /\ \A k \in 2..Len(extracted[i]) : other[i][k] = extracted[i][k]

C4_Witness ==
    /\ pc = "parsed"
    /\ Len(page) = 2
    /\ Len(extracted) = 2
    /\ select_one(page[2], RANK_SEL).found
    /\ RankFallsBack(page[2])
    /\ RankOf(extracted[2]) = 2
    /\ RankOf(extracted[1]) = 3

-----------------------------------------------------------------------------
(* C5  Rank invariant                                                      *)

\* C5: every record parse_items produces has a rank >= 1.
C5_RankPositive ==
    Parsed => \A i \in 1..Len(extracted) : RankOf(extracted[i]) >= 1

-----------------------------------------------------------------------------
(* C6  Cross-format agreement                                              *)

\* The text a cell shows.
Render(v) == IF v.kind = "int" THEN PyStr(v.int) ELSE v.str

\* What an artifact holds: its records in order, each the sequence of its
\* <<key, shown value>> pairs in column / key order.
TableRecords(f) ==
    [i \in 1..Len(f.rows) |->
        [j \in 1..Len(f.header) |-> <<f.header[j], Render(f.rows[i][j])>>]]

ObjectRecords(f) ==
    [i \in 1..Len(f.rows) |->
        [j \in 1..Len(f.rows[i]) |-> <<f.rows[i][j].k, Render(f.rows[i][j].v)>>]]

FIELD_ORDER ==
    <<"rank", "title", "heat", "tag", "brief", "link", "trend", "fetched_at", "source">>

ThreeArtifactsAgree ==
    /\ \A f \in FileNames : files[f].st = "written"
    /\ TableRecords(files["excel"]) = ObjectRecords(files["json"])
    /\ TableRecords(files["csv"]) = ObjectRecords(files["json"])
    /\ Len(files["json"].rows) = Len(data)
    /\ \A i \in 1..Len(data) :
         /\ files["json"].rows[i] = data[i]
         /\ [j \in 1..Len(data[i]) |-> ObjectRecords(files["json"])[i][j][1]] = FIELD_ORDER
    /\ files["excel"].header = FIELD_ORDER
    /\ data # <<>> => files["csv"].header = FIELD_ORDER

\* C6 as stated: for any record sequence handed to the writers, the three
\* artifacts hold the same records, in the same order, with the same values
\* and the key order rank, title, heat, tag, brief, link, trend, fetched_at,
\* source.
C6_AgreeForAnySequence == pc = "done" => ThreeArtifactsAgree

\* C6 amended: for any non-empty record sequence handed to the writers the
\* three artifacts agree; for the empty one only the spreadsheet and the
\* structured text are produced (and hold no record), the delimited text is
\* left as it was.
C6_AgreeWhenNonEmpty ==
    pc = "done" =>
        IF data # <<>> THEN ThreeArtifactsAgree
        ELSE /\ files["excel"].st = "written" /\ files["json"].st = "written"
             /\ TableRecords(files["excel"]) = <<>>
             /\ ObjectRecords(files["json"]) = <<>>
             /\ files["excel"].header = FIELD_ORDER
             /\ Untouched("csv")

C6_Witness ==
    /\ pc = "done"
    /\ Len(data) = 2
    /\ RankOf(data[1]) # RankOf(data[2])
    /\ ThreeArtifactsAgree

-----------------------------------------------------------------------------
(* C7  Empty-input no-op                                                   *)

\* C7: with an empty filtered sequence save_csv creates and modifies no
\* file, and save_json still writes an empty array.
C7_EmptyNoOp ==
    /\ [][(turn("csv") /\ data = <<>>) => (files' = files /\ pc' # "failed")]_vars
    /\ []((pc = "done" /\ data = <<>>) =>
            (files["json"].st = "written" /\ files["json"].rows = <<>>))

C7_Witness ==
    /\ pc = "done"
    /\ data = <<>>
    /\ extracted # <<>>
    /\ files["csv"] = Stale
    /\ files["json"].st = "written"
    /\ files["json"].rows = <<>>

-----------------------------------------------------------------------------
(* C8  Card discovery                                                      *)

\* The divs of class cls, as positions in document order.
RECURSIVE PositionsOf(_, _, _)
PositionsOf(soup, cls, p) ==
    IF p > Len(soup) THEN <<>>
    ELSE (IF soup[p].cls = cls THEN <<p>> ELSE <<>>) \o PositionsOf(soup, cls, p + 1)

\* C8: the cards are exactly the divs matched by the first container
\* selector that matches any (hashed, then generic), in page order; divs
\* matched only by the later selector are left out when the earlier one
\* matched; no match at all gives the empty sequence and no error.
C8_FirstSelectorOnly ==
    Parsed =>
        LET hashed == PositionsOf(page, HASHED, 1)
            generic == PositionsOf(page, GENERIC, 1)
            chosen == IF hashed # <<>> THEN hashed ELSE generic
        IN  /\ Len(extracted) = Len(chosen)
            /\ \A i \in 1..Len(chosen) :
                 extracted[i] = parse_card(page[chosen[i]], i, TsOf(extracted))

C8_Witness ==
    /\ pc = "parsed"
    /\ Len(page) = 2
    /\ page[1].cls = GENERIC
    /\ page[2].cls = HASHED
    /\ Len(extracted) = 1
    /\ extracted[1] = parse_card(page[2], 1, TsOf(extracted))

-----------------------------------------------------------------------------
(* C9  Field selector priority                                             *)

PRIMARY == [rank |-> "index_1Ew5p", heat |-> "hot-index_1Bl1a",
            brief |-> "hot-desc_1m_jR", tag |-> "tag_1z8Gk"]

FALLBACK == [rank |-> "index", heat |-> "hot-index", brief |-> "hot-desc", tag |-> "tag"]

HasNode(card, sel) == \E n \in 1..Len(card.nodes) : card.nodes[n].sel = sel

\* The value of field f read from the primary selector's element alone.
FromPrimary(card, f, idx) ==
    LET el == select_one(card, {PRIMARY[f]})
    IN  IF f = "rank"
        THEN LET parsed == PyInt(get_text(el.node.strs, <<>>))
             IN  IntCell(IF parsed.ok THEN parsed.val ELSE idx)
        ELSE StrCell(get_text(el.node.strs, IF f = "brief" THEN <<" ">> ELSE <<>>))

\* C9: when a card has an element for the primary selector of rank, heat,
\* brief or tag and one for the fallback selector only, the value comes
\* from the primary one, in whichever order the two stand.
C9_PrimaryWins ==
    Parsed =>
        \A p \in CardPositions(page) : \A f \in DOMAIN PRIMARY :
            (HasNode(page[p], PRIMARY[f]) /\ HasNode(page[p], FALLBACK[f])) =>
                Get(extracted[CardIndex(page, p)], f, StrCell(<<>>))
                    = FromPrimary(page[p], f, CardIndex(page, p))

-----------------------------------------------------------------------------
(* C10  Write failure                                                      *)

\* The artifact writer w completes for rows, given the file as it was.
Completed(w, rows, f) ==
    IF w = "csv" /\ rows = <<>> THEN f.st \in {"absent", "stale"}
    ELSE f.st = "written" /\ Len(f.rows) = Len(rows)

\* Position of each format in the order spreadsheet, delimited text,
\* structured text.
ORDER == [excel |-> 1, csv |-> 2, json |-> 3]

\* The writers before the failing one have completed, the failing one left
\* its own file as it was or half written, the later ones never ran.
StoppedAt(w) ==
    /\ nwritten = ORDER[w] - 1
    /\ \A f \in FileNames :
         /\ ORDER[f] < ORDER[w] => Completed(f, data, files[f])
         /\ ORDER[f] = ORDER[w] => files[f].st \in {"absent", "stale", "partial"}
         /\ ORDER[f] > ORDER[w] => Untouched(f)

\* C10 as stated: a failing writer ends the run, is not retried, leaves the
\* earlier artifacts intact, and neither prevents nor corrupts the
\* artifacts of the other two formats.
C10_OthersStillProduced ==
    (pc = "failed" /\ err = "WriteFailure") =>
        /\ nwritten = ORDER[failedAt] - 1
        /\ \A f \in FileNames \ {failedAt} : Completed(f, data, files[f])

\* C10 amended: the writers run in the order spreadsheet, delimited text,
\* structured text; a failing writer ends the run and nothing runs after
\* it; the artifacts of the earlier writers stay complete, and the writers
\* after the failing one never run, so their files are left as they were.
C10_StopsAtFirstFailure ==
    /\ []((pc = "failed" /\ err = "WriteFailure") => StoppedAt(failedAt))
    /\ []((pc = "saving" /\ nwritten = 1) =>
            (Completed("excel", data, files["excel"]) /\ Untouched("csv") /\ Untouched("json")))
    /\ []((pc = "saving" /\ nwritten = 2) =>
            (Completed("excel", data, files["excel"]) /\ Completed("csv", data, files["csv"])
             /\ Untouched("json")))
    /\ [][pc # "failed"]_vars

C10_Witness ==
    /\ pc = "failed"
    /\ err = "WriteFailure"
    /\ failedAt = "csv"
    /\ data # <<>>
    /\ files["excel"].st = "written"
    /\ files["csv"] = Partial
    /\ files["json"] = Stale

====
